---- MODULE Spec2Model ----
(***************************************************************************)
(* A model of zentube's in-memory TTL cache (internal/cache/cache.go) and  *)
(* of the search use case that drives it (internal/usecases/               *)
(* search_videos.go).                                                      *)
(*                                                                         *)
(* Strings are sequences of bytes; "" is <<>>.  Times are integers (ticks  *)
(* of the wall clock), durations are integers too.  Go's map iteration     *)
(* order is unspecified, so every range over the map is a nondeterministic *)
(* choice of an order of its keys.                                         *)
(***************************************************************************)
EXTENDS Integers, Sequences, FiniteSets, TLC

(***************************************************************************)
(* Bounds of the model.                                                    *)
(***************************************************************************)
MaxTime == 1
MaxExecs == 2
ExecTTL == 1
NumClients == 2
NumHandlers == 2
Burst == 1
MaxClock == 2

VARIABLES
    items,        \* Cache.items: key -> cacheItem
    maxEntries,   \* Cache.maxEntries
    defaultTTL,   \* Cache.defaultTTL
    now,          \* the wall clock, time.Now()
    last,         \* the last cache operation: its arguments and what it returned
    pc,           \* caller -> where its Execute call stands
    cur,          \* caller -> the index in execs of its Execute call (0: none)
    execs,        \* every Execute call so far: its arguments, locals and outcome
    mu,           \* Cache.mu, the sync.RWMutex
    lpc,          \* goroutine -> where its cache call stands with the mutex
    lop,          \* goroutine -> the cache method it is calling
    obs,          \* goroutine -> the key sets its accesses to c.items have met
    kcalls,       \* the last two calls of GenerateKey: arguments and results
    ips,          \* IPRateLimiter.ips: ip -> limiter
    tokens,       \* limiter -> tokens left in its bucket
    rmu,          \* IPRateLimiter.mu: the goroutines holding it
    rpc,          \* handler goroutine -> where its request stands in the middleware
    rreq,         \* handler goroutine -> its request: ip, limiter got, outcome
    track,        \* what has been handed out and used: by ip and by limiter
    clock         \* the wall clock of the rate limiter, in hours

cvars == <<items, maxEntries, defaultTTL, now, last>>

evars == <<pc, cur, execs>>

lvars == <<mu, lpc, lop, obs>>

rvars == <<ips, tokens, rmu, rpc, rreq, track, clock>>

vars == <<items, maxEntries, defaultTTL, now, last, pc, cur, execs, mu, lpc, lop, obs, kcalls,
          ips, tokens, rmu, rpc, rreq, track, clock>>

(***************************************************************************)
(* The per-IP rate limiter (internal/adapters/http/middleware/             *)
(* ratelimit.go) right after NewIPRateLimiter: no ip is tracked.           *)
(***************************************************************************)
Handlers == 1..NumHandlers

IPs == {"x", "y"}

NoRequest == [ip |-> "", lim |-> 0, out |-> "none", had |-> 0]

NoTrack == [given |-> [a \in IPs |-> {}], served |-> <<>>, lastUse |-> [a \in IPs |-> 0]]

RateInit ==
    /\ ips = [a \in {} |-> 0]
    /\ tokens = <<>>
    /\ rmu = {}
    /\ rpc = [h \in Handlers |-> "idle"]
    /\ rreq = [h \in Handlers |-> NoRequest]
    /\ track = NoTrack
    /\ clock = 0

(***************************************************************************)
(* Values.                                                                 *)
(***************************************************************************)
EmptyString == <<>>

\* interface{}(nil), the value Get returns with found = false
NilValue == [kind |-> "nil", elems |-> <<>>]

Slice(s) == [kind |-> "slice", elems |-> s]

\* the zero time.Time: no clock reading is Before it
ZeroTime == -1

Keys == {EmptyString, <<97>>, <<98>>}

Values == {Slice(<<1>>), Slice(<<2>>)}

\* the ttl arguments of SetWithTTL, and the arguments of NewCache
TTLs == {0, 1}

Capacities == {1, 2}

DefaultTTLs == {1}

Orders(S) ==
    {f \in [1..Cardinality(S) -> S] : \A i, j \in DOMAIN f : f[i] = f[j] => i = j}

\* an assignment that keeps the entry already stored under the key
PutIfAbsent(its, key, item) ==
    IF key \in DOMAIN its THEN its
    ELSE [k \in DOMAIN its \cup {key} |-> IF k = key THEN item ELSE its[k]]

Remove(its, key) == [k \in DOMAIN its \ {key} |-> its[k]]

Put(its, key, item) ==
    [k \in DOMAIN its \cup {key} |-> IF k = key THEN item ELSE its[k]]

\* time.Time.After and time.Time.Before
After(t, u) == t > u

Before(t, u) == t < u

(***************************************************************************)
(* evictOldest: the range loop over the map in the order `order', then     *)
(* the delete.                                                             *)
(***************************************************************************)
RECURSIVE scanOldest(_, _, _, _)
scanOldest(its, order, oldestKey, oldestTime) ==
    IF order = <<>> THEN oldestKey
    ELSE LET key == Head(order)
             item == its[key]
         IN  IF oldestKey = EmptyString \/ Before(item.createdAt, oldestTime)
             THEN scanOldest(its, Tail(order), key, item.createdAt)
             ELSE scanOldest(its, Tail(order), oldestKey, oldestTime)

evictOldest(its, order) ==
    LET oldestKey == scanOldest(its, order, EmptyString, ZeroTime)
    IN  IF oldestKey # EmptyString THEN Remove(its, oldestKey) ELSE its

\* a capacity test without the maxEntries > 0 condition
AtCapacityAnyLimit(its, cap) == Cardinality(DOMAIN its) >= cap

\* the capacity test of SetWithTTL
AtCapacity(its, cap) == cap > 0 /\ Cardinality(DOMAIN its) >= cap

\* a Delete that empties the map when it finds the key
DeleteAll(its, key) == IF key \in DOMAIN its THEN [k \in {} |-> its[k]] ELSE its

\* a SetWithTTL that turns the new entry down when the cache is at capacity
SetWithTTLReject(its, cap, key, value, ttl, t1, t2, order) ==
    IF AtCapacity(its, cap) /\ key \notin DOMAIN its THEN its
    ELSE Put(its, key, [value |-> value, expiration |-> t1 + ttl, createdAt |-> t2])

\* a SetWithTTL that leaves the createdAt of a key already stored as it is
SetWithTTLKeepCreatedAt(its, cap, key, value, ttl, t1, t2, order) ==
    LET kept == IF AtCapacity(its, cap) THEN evictOldest(its, order) ELSE its
    IN  Put(kept, key, [value |-> value, expiration |-> t1 + ttl,
                        createdAt |-> IF key \in DOMAIN its THEN its[key].createdAt ELSE t2])

\* SetWithTTL's map after the call; t1 and t2 are its two clock readings
SetWithTTL(its, cap, key, value, ttl, t1, t2, order) ==
    LET kept == IF AtCapacity(its, cap) THEN evictOldest(its, order) ELSE its
    IN  Put(kept, key, [value |-> value, expiration |-> t1 + ttl, createdAt |-> t2])

\* a Get that returns whatever is stored under the key, expired or not
GetStored(its, key, t) ==
    IF key \notin DOMAIN its THEN [value |-> NilValue, found |-> FALSE]
    ELSE [value |-> its[key].value, found |-> TRUE]

\* Get's result at clock reading t
Get(its, key, t) ==
    IF key \notin DOMAIN its THEN [value |-> NilValue, found |-> FALSE]
    ELSE IF After(t, its[key].expiration) THEN [value |-> NilValue, found |-> FALSE]
    ELSE [value |-> its[key].value, found |-> TRUE]

Delete(its, key) == Remove(its, key)

\* make(map[string]*cacheItem)
EmptyMap == [k \in {} |-> NilValue]

\* a Clear that leaves the entry under the empty key in place
ClearKeepsEmptyKey(its) == [k \in DOMAIN its \cap {EmptyString} |-> its[k]]

\* c.items = make(map[string]*cacheItem)
Clear(its) == EmptyMap

CacheLen(its) == Cardinality(DOMAIN its)

\* a Get that deletes the entry it finds expired
AfterGetLazyDelete(its, key, t) ==
    IF key \in DOMAIN its /\ After(t, its[key].expiration) THEN Remove(its, key) ELSE its

\* the map after Get: Get assigns nothing
AfterGet(its, key, t) == its

(***************************************************************************)
(* GetStats.  The zero Stats, the range loop that finds the oldest and the *)
(* newest createdAt, and the ages taken from the clock reading t.          *)
(***************************************************************************)
NoStats == [TotalItems |-> 0, MaxEntries |-> 0, DefaultTTL |-> 0,
            OldestItemAge |-> 0, NewestItemAge |-> 0]

IsZero(t) == t = ZeroTime

\* time.Time.Sub
Sub(t, u) == t - u

RECURSIVE scanAges(_, _, _, _)
scanAges(its, order, oldest, newest) ==
    IF order = <<>> THEN [oldest |-> oldest, newest |-> newest]
    ELSE LET c == its[Head(order)].createdAt
         IN  scanAges(its, Tail(order),
                      IF IsZero(oldest) \/ Before(c, oldest) THEN c ELSE oldest,
                      IF IsZero(newest) \/ After(c, newest) THEN c ELSE newest)

\* a GetStats that counts the entries that have not expired
GetStatsLiveOnly(its, cap, ttl, t, order) ==
    LET live == {k \in DOMAIN its : ~After(t, its[k].expiration)}
        ages == scanAges(its, order, ZeroTime, ZeroTime)
    IN  IF DOMAIN its = {}
        THEN [NoStats EXCEPT !.MaxEntries = cap, !.DefaultTTL = ttl]
        ELSE [TotalItems |-> Cardinality(live), MaxEntries |-> cap, DefaultTTL |-> ttl,
              OldestItemAge |-> Sub(t, ages.oldest),
              NewestItemAge |-> Sub(t, ages.newest)]

GetStats(its, cap, ttl, t, order) ==
    LET ages == scanAges(its, order, ZeroTime, ZeroTime)
    IN  IF CacheLen(its) > 0
        THEN [TotalItems |-> CacheLen(its), MaxEntries |-> cap, DefaultTTL |-> ttl,
              OldestItemAge |-> Sub(t, ages.oldest),
              NewestItemAge |-> Sub(t, ages.newest)]
        ELSE [NoStats EXCEPT !.TotalItems = CacheLen(its), !.MaxEntries = cap,
                             !.DefaultTTL = ttl]

\* a sweep that deletes nothing
removeExpiredNone(its, t) == its

\* a sweep that also deletes the entries whose expiration is the clock reading
removeExpiredAtDeadline(its, t) ==
    [k \in {x \in DOMAIN its : Before(t, its[x].expiration)} |-> its[k]]

\* removeExpired's map after the call, at clock reading t
removeExpired(its, t) ==
    [k \in {x \in DOMAIN its : ~After(t, its[x].expiration)} |-> its[k]]

\* the orders in which SetWithTTL's call of evictOldest may range over the map
\* (no range loop runs when the capacity test fails)
MapOrders(its, cap) == IF AtCapacity(its, cap) THEN Orders(DOMAIN its) ELSE {<<>>}

(***************************************************************************)
(* Cache.mu.  A sync.RWMutex is held by one writer or by any number of     *)
(* readers; a writer that has called Lock keeps new readers out while it   *)
(* waits for the readers inside to leave.                                  *)
(***************************************************************************)
Sweeper == 0

Clients == 1..NumClients

Procs == Clients \cup {Sweeper}

\* the zero RWMutex: writer is the goroutine that has called Lock (if any), held
\* whether it has got the lock, readers the goroutines holding a read lock
Unlocked == [writer |-> {}, held |-> FALSE, readers |-> {}]

(***************************************************************************)
(* The record of the last operation: what was called and what it returned. *)
(***************************************************************************)
NoOp == [op |-> "none", key |-> EmptyString, value |-> NilValue, found |-> FALSE,
         n |-> 0, full |-> FALSE, had |-> FALSE, gone |-> {}, ttl |-> 0,
         stats |-> NoStats, failed |-> FALSE]

(***************************************************************************)
(* The cache's operations, each atomic under Cache.mu.                     *)
(***************************************************************************)
Init ==
    /\ items = EmptyMap
    /\ maxEntries \in Capacities
    /\ defaultTTL \in DefaultTTLs
    /\ now = 0
    /\ last = NoOp
    /\ pc = [c \in {1} |-> "idle"]
    /\ cur = [c \in {1} |-> 0]
    /\ execs = <<>>
    /\ mu = Unlocked
    /\ lpc = [p \in Procs |-> "idle"]
    /\ lop = [p \in Procs |-> "none"]
    /\ obs = [p \in Procs |-> <<>>]
    /\ kcalls = <<>>
    /\ RateInit

Tick ==
    /\ now < MaxTime
    /\ now' = now + 1
    /\ last' = [NoOp EXCEPT !.op = "Tick"]
    /\ UNCHANGED <<items, maxEntries, defaultTTL>>
    /\ UNCHANGED evars
    /\ UNCHANGED lvars
    /\ UNCHANGED kcalls
    /\ UNCHANGED rvars

DoSetWithTTL(key, value, ttl) ==
    \E t2 \in {now, now + 1} :
    \E after \in {SetWithTTL(items, maxEntries, key, value, ttl, now, t2, order) :
                    order \in MapOrders(items, maxEntries)} :
        /\ t2 <= MaxTime
        /\ items' = after
        /\ now' = t2
        /\ last' = [NoOp EXCEPT !.op = "Set", !.key = key, !.value = value, !.ttl = ttl,
                       !.full = AtCapacity(items, maxEntries),
                       !.had = (key \in DOMAIN items),
                       !.gone = DOMAIN items \ DOMAIN items']
        /\ UNCHANGED <<maxEntries, defaultTTL>>
        /\ UNCHANGED evars
        /\ UNCHANGED lvars
        /\ UNCHANGED kcalls
        /\ UNCHANGED rvars

CallSetWithTTL == \E key \in Keys, value \in Values, ttl \in TTLs : DoSetWithTTL(key, value, ttl)

\* Set(key, value) is SetWithTTL(key, value, c.defaultTTL)
CallSet == \E key \in Keys, value \in Values : DoSetWithTTL(key, value, defaultTTL)

CallGet ==
    \E key \in Keys :
        LET r == Get(items, key, now)
        IN  /\ last' = [NoOp EXCEPT !.op = "Get", !.key = key, !.value = r.value,
                           !.found = r.found]
            /\ items' = AfterGet(items, key, now)
            /\ UNCHANGED <<maxEntries, defaultTTL, now>>
            /\ UNCHANGED evars
            /\ UNCHANGED lvars
            /\ UNCHANGED kcalls
            /\ UNCHANGED rvars

CallDelete ==
    \E key \in Keys :
        /\ items' = Delete(items, key)
        /\ last' = [NoOp EXCEPT !.op = "Delete", !.key = key,
                       !.had = (key \in DOMAIN items)]
        /\ UNCHANGED <<maxEntries, defaultTTL, now>>
        /\ UNCHANGED evars
        /\ UNCHANGED lvars
        /\ UNCHANGED kcalls
        /\ UNCHANGED rvars

CallClear ==
    /\ items' = Clear(items)
    /\ last' = [NoOp EXCEPT !.op = "Clear", !.gone = DOMAIN items]
    /\ UNCHANGED <<maxEntries, defaultTTL, now>>
    /\ UNCHANGED evars
    /\ UNCHANGED lvars
    /\ UNCHANGED kcalls
    /\ UNCHANGED rvars

CallLen ==
    /\ last' = [NoOp EXCEPT !.op = "Len", !.n = CacheLen(items)]
    /\ UNCHANGED <<items, maxEntries, defaultTTL, now>>
    /\ UNCHANGED evars
    /\ UNCHANGED lvars
    /\ UNCHANGED kcalls
    /\ UNCHANGED rvars

CallGetStats ==
    \E order \in Orders(DOMAIN items) :
        /\ last' = [NoOp EXCEPT !.op = "GetStats",
                       !.stats = GetStats(items, maxEntries, defaultTTL, now, order)]
        /\ UNCHANGED <<items, maxEntries, defaultTTL, now>>
        /\ UNCHANGED evars
        /\ UNCHANGED lvars
        /\ UNCHANGED kcalls
        /\ UNCHANGED rvars

\* one tick of startCleanup's ticker
Sweep ==
    /\ items' = removeExpired(items, now)
    /\ last' = [NoOp EXCEPT !.op = "Sweep", !.gone = DOMAIN items \ DOMAIN items']
    /\ UNCHANGED <<maxEntries, defaultTTL, now>>
    /\ UNCHANGED evars
    /\ UNCHANGED lvars
    /\ UNCHANGED kcalls
    /\ UNCHANGED rvars

Next ==
    \/ Tick
    \/ CallSetWithTTL
    \/ CallSet
    \/ CallGet
    \/ CallDelete
    \/ CallClear
    \/ CallLen
    \/ CallGetStats
    \/ Sweep

Spec == Init /\ [][Next]_vars

(***************************************************************************)
(* NewCache with any arguments, and the cache it returns in use.  NewCache *)
(* returns a *Cache and nothing else: it has no failing path.              *)
(***************************************************************************)
AnyCapacities == {-1, 0, 1}

AnyDefaultTTLs == {-1, 0, 1}

NewCache(cap, ttl) ==
    [items |-> EmptyMap, maxEntries |-> cap, defaultTTL |-> ttl, failed |-> FALSE]

InitNew ==
    \E cap \in AnyCapacities, ttl \in AnyDefaultTTLs :
        LET c == NewCache(cap, ttl)
        IN  /\ items = c.items
            /\ maxEntries = c.maxEntries
            /\ defaultTTL = c.defaultTTL
            /\ now = 0
            /\ last = [NoOp EXCEPT !.op = "NewCache", !.failed = c.failed]
            /\ pc = [p \in {1} |-> "idle"]
            /\ cur = [p \in {1} |-> 0]
            /\ execs = <<>>
            /\ mu = Unlocked
            /\ lpc = [p \in Procs |-> "idle"]
            /\ lop = [p \in Procs |-> "none"]
            /\ obs = [p \in Procs |-> <<>>]
            /\ kcalls = <<>>
            /\ RateInit

SpecNew == InitNew /\ [][Next]_vars

(***************************************************************************)
(* The cache NewCache returns for maxEntries <= 0 (documented as           *)
(* "0 = unlimited", cache.go:37) and a positive default TTL, in use.       *)
(***************************************************************************)
InitUnlimited ==
    /\ InitNew
    /\ maxEntries <= 0
    /\ defaultTTL \in DefaultTTLs

SpecUnlimited == InitUnlimited /\ [][Next]_vars

(***************************************************************************)
(* GenerateKey.  SHA-256 is taken as collision-free: the digest of a byte  *)
(* string is that string behind a mark, so that no digest is "" and two    *)
(* digests are equal exactly when the hashed bytes are.                    *)
(***************************************************************************)
StringPart(b) == [kind |-> "string", val |-> b]

Int64Part(v) == [kind |-> "int64", val |-> v]

\* a 64-bit integer hi * 2^32 + lo, lo its low word read as a signed 32-bit
\* number (every int64 is such a sum in one way)
Wide(hi, lo) == [hi |-> hi, lo |-> lo]

\* an int64 that fits 32 bits
Int64Of(n) == Wide(0, n)

\* rune(val): the conversion to int32 keeps the low word
RuneOf(v) == v.lo

ValidRune(r) == (0 <= r /\ r < 55296) \/ (57343 < r /\ r <= 1114111)

\* the UTF-8 encoding of a valid rune
Utf8(r) ==
    IF r < 128 THEN <<r>>
    ELSE IF r < 2048 THEN <<192 + (r \div 64), 128 + (r % 64)>>
    ELSE IF r < 65536
         THEN <<224 + (r \div 4096), 128 + ((r \div 64) % 64), 128 + (r % 64)>>
    ELSE <<240 + (r \div 262144), 128 + ((r \div 4096) % 64),
           128 + ((r \div 64) % 64), 128 + (r % 64)>>

\* string(rune(val)): an invalid rune becomes U+FFFD
RuneString(v) == IF ValidRune(RuneOf(v)) THEN Utf8(RuneOf(v)) ELSE Utf8(65533)

\* a toString without the int64 case: an int64 part falls to the default
toStringNoInt64(part) ==
    CASE part.kind = "string" -> part.val
      [] part.kind = "int" -> RuneString(part.val)
      [] OTHER -> <<>>

toString(part) ==
    CASE part.kind = "string" -> part.val
      [] part.kind = "int" -> RuneString(part.val)
      [] part.kind = "int64" -> RuneString(part.val)
      [] OTHER -> <<>>

RECURSIVE HashInput(_)
HashInput(parts) ==
    IF parts = <<>> THEN <<>> ELSE toString(Head(parts)) \o HashInput(Tail(parts))

Sha256Hex(bytes) == <<35>> \o bytes

GenerateKey(parts) == Sha256Hex(HashInput(parts))

\* "search"
SearchTag == <<115, 101, 97, 114, 99, 104>>

(***************************************************************************)
(* GenerateKey called on its own.  The state keeps the last two calls: the *)
(* parts passed, the string toString made of each part, the key, and       *)
(* whether the call failed (GenerateKey returns a string and has no        *)
(* failing path).                                                          *)
(***************************************************************************)
IntPart(v) == [kind |-> "int", val |-> v]

OtherPart(kind, v) == [kind |-> kind, val |-> v]

\* numbers passed as the numeric part: two limits, negative numbers, a surrogate,
\* U+FFFD itself, a two-byte rune, a number above the last code point
Numbers == {Int64Of(10), Int64Of(25), Int64Of(-1), Int64Of(-2), Int64Of(233),
            Int64Of(55296), Int64Of(65533), Int64Of(1114112)}

\* 2^32 + 10, an int64 beyond 32 bits
WideNumbers == {Wide(1, 10)}

NumericParts ==
    {IntPart(v) : v \in Numbers} \cup {Int64Part(v) : v \in Numbers \cup WideNumbers}

\* parts of types toString has no case for: int32, bool, float64
UnsupportedParts ==
    {OtherPart("int32", Int64Of(10)), OtherPart("int32", Int64Of(25)),
     OtherPart("bool", Int64Of(1)), OtherPart("float64", Int64Of(10))}

Queries == {<<97>>, <<98>>, <<>>}

PartTuples ==
    {<<StringPart(SearchTag), StringPart(q), n>> :
        q \in Queries, n \in NumericParts \cup UnsupportedParts}

\* pieces of "abc", and the calls with one or two string parts made of them
Fragments == {<<>>, <<97>>, <<97, 98>>, <<98, 99>>, <<99>>}

StringTuples ==
    {<<StringPart(x)>> : x \in Fragments}
        \cup {<<StringPart(x), StringPart(y)>> : x \in Fragments, y \in Fragments}

\* the range ValidateSearchQuery lets maxResults be in
MinResults == 1

MaxAllowedResults == 50

\* limits in that range: its ends, 10, and the code points of ' ' and '1'
Limits == {n \in MinResults..MaxAllowedResults : n \in {1, 10, 32, 49, 50}}

\* "a", "a1", "a " and "a 1"
SearchQueries == {<<97>>, <<97, 49>>, <<97, 32>>, <<97, 32, 49>>}

\* the parts Execute passes for a validated search
SearchTuples ==
    {<<StringPart(SearchTag), StringPart(q), Int64Part(Int64Of(n))>> :
        q \in SearchQueries, n \in Limits}

AllTuples == PartTuples \cup StringTuples \cup SearchTuples

KeyCall(parts) ==
    [parts |-> parts,
     strs |-> [i \in DOMAIN parts |-> toString(parts[i])],
     key |-> GenerateKey(parts),
     failed |-> FALSE]

\* no cache is involved: its fields stay at their zero values
InitKey ==
    /\ items = EmptyMap
    /\ maxEntries = 0
    /\ defaultTTL = 0
    /\ now = 0
    /\ last = NoOp
    /\ pc = [c \in {1} |-> "idle"]
    /\ cur = [c \in {1} |-> 0]
    /\ execs = <<>>
    /\ mu = Unlocked
    /\ lpc = [p \in Procs |-> "idle"]
    /\ lop = [p \in Procs |-> "none"]
    /\ obs = [p \in Procs |-> <<>>]
    /\ kcalls = <<>>
    /\ RateInit

CallGenerateKey ==
    \E parts \in AllTuples :
        /\ kcalls' = IF kcalls = <<>> THEN <<KeyCall(parts)>>
                      ELSE <<kcalls[Len(kcalls)], KeyCall(parts)>>
        /\ UNCHANGED <<cvars, evars, lvars, rvars>>

NextKey == CallGenerateKey

SpecKey == InitKey /\ [][NextKey]_vars

(***************************************************************************)
(* SearchVideos.Execute.  Each caller runs Execute step by step; the       *)
(* history goroutine of a call runs beside it.                             *)
(***************************************************************************)
NilSlice == [kind |-> "nilslice", elems |-> <<>>]

NoError == "nil"

ApiError == "API error"

\* the (query, maxResults) pairs Execute is called with
ExecArgs == {<<(<<97>>), 10>>, <<(<<98>>), 10>>}

\* what ytClient.Search may return
Outcomes ==
    {[videos |-> Slice(<<1>>), err |-> NoError],
     [videos |-> Slice(<<2, 3>>), err |-> NoError],
     [videos |-> NilSlice, err |-> ApiError],
     [videos |-> Slice(<<1>>), err |-> ApiError]}

\* what historyRepo.Save may return
SaveResults == {"ok", "error", "timeout"}

NoReturn == [videos |-> NilSlice, err |-> NoError, done |-> FALSE]

NoHistory == [query |-> <<>>, results |-> 0]

\* a key that leaves the query out
CacheKeyNoQuery(query, maxResults) ==
    GenerateKey(<<StringPart(SearchTag), Int64Part(Int64Of(maxResults))>>)

\* cacheKey := cache.GenerateKey("search", query, maxResults)
CacheKey(query, maxResults) ==
    GenerateKey(<<StringPart(SearchTag), StringPart(query), Int64Part(Int64Of(maxResults))>>)

NewExec(query, maxResults, solo) ==
    [query |-> query, limit |-> maxResults, key |-> CacheKey(query, maxResults),
     solo |-> solo, inWindow |-> FALSE, hit |-> FALSE, called |-> FALSE, up |-> "none",
     videos |-> NilSlice, exp |-> 0, stored |-> 0, ret |-> NoReturn,
     save |-> "none", saveCalls |-> 0, saveResult |-> "none", history |-> NoHistory,
     ctx |-> "live", saveCtx |-> "none"]

\* cache.NewCache(1000, 5*time.Minute): the capacity, and the TTL in ticks of the
\* model's clock
CacheMaxEntries == 1000

\* the clock of the use case's model runs until an entry can have expired
ExecMaxTime == ExecTTL + 1

Active == {c \in DOMAIN pc : pc[c] # "idle"}

InitExec ==
    /\ items = EmptyMap
    /\ maxEntries = CacheMaxEntries
    /\ defaultTTL = ExecTTL
    /\ now = 0
    /\ last = NoOp
    /\ pc = [c \in {1} |-> "idle"]
    /\ cur = [c \in {1} |-> 0]
    /\ execs = <<>>
    /\ mu = Unlocked
    /\ lpc = [p \in Procs |-> "idle"]
    /\ lop = [p \in Procs |-> "none"]
    /\ obs = [p \in Procs |-> <<>>]
    /\ kcalls = <<>>
    /\ RateInit

\* a caller enters Execute; a call that overlaps another one is not solo
Start(c) ==
    \E a \in ExecArgs :
        /\ pc[c] = "idle"
        /\ Len(execs) < MaxExecs
        /\ execs' = Append([i \in DOMAIN execs |->
                               IF \E d \in Active : cur[d] = i
                               THEN [execs[i] EXCEPT !.solo = FALSE] ELSE execs[i]],
                           NewExec(a[1], a[2], Active = {}))
        /\ cur' = [cur EXCEPT ![c] = Len(execs) + 1]
        /\ pc' = [pc EXCEPT ![c] = "get"]
        /\ UNCHANGED cvars
        /\ UNCHANGED lvars
        /\ UNCHANGED kcalls
        /\ UNCHANGED rvars

\* the cached value asserted to a type that is never stored
IsVideosPointer(value) == value.kind = "pointer"

\* the cached value asserted to []entities.Video
IsVideos(value) == value.kind \in {"slice", "nilslice"}

\* lines 35-42: the lookup, and the return on a hit
Lookup(its, e, t) ==
    LET r == Get(its, e.key, t)
    IN  IF r.found /\ IsVideos(r.value)
        THEN [exec |-> [e EXCEPT !.hit = TRUE, !.exp = its[e.key].expiration,
                                 !.ret = [videos |-> r.value, err |-> NoError,
                                          done |-> TRUE]],
              next |-> "idle"]
        ELSE [exec |-> e, next |-> "call"]

\* whether call i looks up the cache before the entry of the call before it expires
InWindow(i) == i > 1 /\ execs[i - 1].ret.done /\ now < execs[i - 1].exp

CacheGet(c) ==
    /\ pc[c] = "get"
    /\ LET r == Lookup(items, execs[cur[c]], now)
       IN  /\ execs' = [execs EXCEPT ![cur[c]] =
                            [r.exec EXCEPT !.inWindow = InWindow(cur[c])]]
           /\ pc' = [pc EXCEPT ![c] = r.next]
           /\ cur' = [cur EXCEPT ![c] = IF r.next = "idle" THEN 0 ELSE @]
    /\ UNCHANGED cvars
    /\ UNCHANGED lvars
    /\ UNCHANGED kcalls
    /\ UNCHANGED rvars

\* line 45: the call of ytClient.Search is issued
CallUpstream(c) ==
    /\ pc[c] = "call"
    /\ execs' = [execs EXCEPT ![cur[c]].called = TRUE]
    /\ pc' = [pc EXCEPT ![c] = "wait"]
    /\ UNCHANGED <<cvars, cur>>
    /\ UNCHANGED lvars
    /\ UNCHANGED kcalls
    /\ UNCHANGED rvars

\* Search's results returned together with its error
AfterSearchPartial(e, out) ==
    IF out.err # NoError
    THEN [exec |-> [e EXCEPT !.up = out.err,
                             !.ret = [videos |-> out.videos, err |-> out.err,
                                      done |-> TRUE]],
          next |-> "idle"]
    ELSE [exec |-> [e EXCEPT !.up = out.err, !.videos = out.videos], next |-> "set"]

\* the history goroutine started whether Search failed or not
AfterSearchLogged(e, out) ==
    IF out.err # NoError
    THEN [exec |-> [e EXCEPT !.up = out.err, !.save = "spawned",
                             !.ret = [videos |-> NilSlice, err |-> out.err, done |-> TRUE]],
          next |-> "idle"]
    ELSE [exec |-> [e EXCEPT !.up = out.err, !.videos = out.videos], next |-> "set"]

\* lines 45-48: Search has returned `out'
AfterSearch(e, out) ==
    IF out.err # NoError
    THEN [exec |-> [e EXCEPT !.up = out.err,
                             !.ret = [videos |-> NilSlice, err |-> out.err, done |-> TRUE]],
          next |-> "idle"]
    ELSE [exec |-> [e EXCEPT !.up = out.err, !.videos = out.videos], next |-> "set"]

UpstreamReturn(c) ==
    \E out \in Outcomes :
        /\ pc[c] = "wait"
        /\ LET r == AfterSearch(execs[cur[c]], out)
           IN  /\ execs' = [execs EXCEPT ![cur[c]] = r.exec]
               /\ pc' = [pc EXCEPT ![c] = r.next]
               /\ cur' = [cur EXCEPT ![c] = IF r.next = "idle" THEN 0 ELSE @]
        /\ UNCHANGED cvars
        /\ UNCHANGED lvars
        /\ UNCHANGED kcalls
        /\ UNCHANGED rvars

\* lines 51-53: s.cache.Set(cacheKey, videos)
CacheSet(c) ==
    /\ pc[c] = "set"
    /\ \E t2 \in {now, now + 1} :
       \E after \in {SetWithTTL(items, maxEntries, execs[cur[c]].key, execs[cur[c]].videos,
                                defaultTTL, now, t2, order) :
                       order \in MapOrders(items, maxEntries)} :
           /\ t2 <= ExecMaxTime
           /\ items' = after
           /\ now' = t2
    /\ execs' = [execs EXCEPT ![cur[c]].stored = @ + 1,
                              ![cur[c]].exp = now + defaultTTL]
    /\ pc' = [pc EXCEPT ![c] = "go"]
    /\ UNCHANGED <<maxEntries, defaultTTL, last, cur>>
    /\ UNCHANGED lvars
    /\ UNCHANGED kcalls
    /\ UNCHANGED rvars

\* lines 57-69: the go statement starts the history goroutine
Spawn(c) ==
    /\ pc[c] = "go"
    /\ execs' = [execs EXCEPT ![cur[c]].save = "spawned"]
    /\ pc' = [pc EXCEPT ![c] = "ret"]
    /\ UNCHANGED <<cvars, cur>>
    /\ UNCHANGED lvars
    /\ UNCHANGED kcalls
    /\ UNCHANGED rvars

\* Execute joining the history goroutine before it returns
CanReturnAfterSave(e) == e.save = "ended"

\* line 71 follows the go statement at once: Execute waits for nothing
CanReturn(e) == TRUE

Return(c) ==
    /\ pc[c] = "ret"
    /\ CanReturn(execs[cur[c]])
    /\ execs' = [execs EXCEPT ![cur[c]].ret =
                    [videos |-> execs[cur[c]].videos, err |-> NoError, done |-> TRUE]]
    /\ pc' = [pc EXCEPT ![c] = "idle"]
    /\ cur' = [cur EXCEPT ![c] = 0]
    /\ UNCHANGED cvars
    /\ UNCHANGED lvars
    /\ UNCHANGED kcalls
    /\ UNCHANGED rvars

\* a record that carries the requested limit as its result count
NewHistoryLimit(e) == [query |-> e.query, results |-> e.limit]

\* lines 61-65: &entities.SearchHistory{Query: query, Results: len(videos), ...}
NewHistory(e) == [query |-> e.query, results |-> Len(e.videos.elems)]

\* the history goroutine's context derived from the caller's ctx
SaveCtxParentCaller == "caller"

\* line 58: context.WithTimeout(context.Background(), 3*time.Second)
SaveCtxParent == "background"

\* a context derived from a cancelled parent is born cancelled
WithTimeout(parent, e) ==
    IF parent = "caller" /\ e.ctx = "cancelled" THEN "cancelled" ELSE "live"

\* lines 58-68: the goroutine builds the record and calls historyRepo.Save
SaveStart(i) ==
    /\ execs[i].save = "spawned"
    /\ execs' = [execs EXCEPT ![i].save = "running", ![i].saveCalls = @ + 1,
                              ![i].saveCtx = WithTimeout(SaveCtxParent, execs[i]),
                              ![i].history = NewHistory(execs[i])]
    /\ UNCHANGED <<cvars, pc, cur>>
    /\ UNCHANGED lvars
    /\ UNCHANGED kcalls
    /\ UNCHANGED rvars

\* a Save that failed is called again
AfterSaveRetry(result) == IF result = "ok" THEN "ended" ELSE "spawned"

\* line 68: _ = s.historyRepo.Save(...): whatever Save returns, the goroutine ends
AfterSave(result) == "ended"

SaveEnd(i) ==
    \E result \in SaveResults :
        /\ execs[i].save = "running"
        /\ execs' = [execs EXCEPT ![i].save = AfterSave(result), ![i].saveResult = result]
        /\ UNCHANGED <<cvars, pc, cur>>
        /\ UNCHANGED lvars
        /\ UNCHANGED kcalls
        /\ UNCHANGED rvars

ExecTick ==
    /\ now < ExecMaxTime
    /\ now' = now + 1
    /\ UNCHANGED <<items, maxEntries, defaultTTL, last, evars>>
    /\ UNCHANGED lvars
    /\ UNCHANGED kcalls
    /\ UNCHANGED rvars

\* one tick of startCleanup's ticker, beside the use case
ExecSweep ==
    /\ items' = removeExpired(items, now)
    /\ UNCHANGED <<maxEntries, defaultTTL, now, last, evars>>
    /\ UNCHANGED lvars
    /\ UNCHANGED kcalls
    /\ UNCHANGED rvars

NextExec ==
    \/ \E c \in DOMAIN pc : Start(c)
    \/ \E c \in DOMAIN pc : CacheGet(c)
    \/ \E c \in DOMAIN pc : CallUpstream(c)
    \/ \E c \in DOMAIN pc : UpstreamReturn(c)
    \/ \E c \in DOMAIN pc : CacheSet(c)
    \/ \E c \in DOMAIN pc : Spawn(c)
    \/ \E c \in DOMAIN pc : Return(c)
    \/ \E i \in DOMAIN execs : SaveStart(i)
    \/ \E i \in DOMAIN execs : SaveEnd(i)
    \/ ExecTick
    \/ ExecSweep

SpecExec == InitExec /\ [][NextExec]_vars

(***************************************************************************)
(* Cancellation.  The ctx Execute receives is the request's context       *)
(* (youtube_handler.go:41); it is cancelled from outside at any moment,    *)
(* while Execute runs or after it has returned.  A cancellation reaches    *)
(* the contexts derived from the cancelled one.                            *)
(***************************************************************************)
Cancel(i) ==
    /\ execs[i].ctx = "live"
    /\ execs' = [execs EXCEPT ![i].ctx = "cancelled",
                              ![i].saveCtx = IF SaveCtxParent = "caller" /\ @ = "live"
                                             THEN "cancelled" ELSE @]
    /\ UNCHANGED <<cvars, pc, cur>>
    /\ UNCHANGED lvars
    /\ UNCHANGED kcalls
    /\ UNCHANGED rvars

NextCancel ==
    \/ \E c \in DOMAIN pc : Start(c)
    \/ \E c \in DOMAIN pc : CacheGet(c)
    \/ \E c \in DOMAIN pc : CallUpstream(c)
    \/ \E c \in DOMAIN pc : UpstreamReturn(c)
    \/ \E c \in DOMAIN pc : CacheSet(c)
    \/ \E c \in DOMAIN pc : Spawn(c)
    \/ \E c \in DOMAIN pc : Return(c)
    \/ \E i \in DOMAIN execs : SaveStart(i)
    \/ \E i \in DOMAIN execs : SaveEnd(i)
    \/ \E i \in DOMAIN execs : Cancel(i)

\* Execute's own steps: what the goroutine does without waiting for anything
\* outside the process
OwnSteps ==
    \E c \in DOMAIN pc :
        CacheGet(c) \/ CallUpstream(c) \/ CacheSet(c) \/ Spawn(c) \/ Return(c)

\* the scheduler runs a runnable goroutine; nothing makes the upstream answer,
\* the history store finish, or the client cancel
SpecCancel == InitExec /\ [][NextCancel]_vars /\ WF_vars(OwnSteps)

(***************************************************************************)
(* The same use case called from two goroutines at once (two HTTP requests *)
(* served by one SearchVideos).                                            *)
(***************************************************************************)
Callers == {1, 2}

InitConc ==
    /\ items = EmptyMap
    /\ maxEntries = CacheMaxEntries
    /\ defaultTTL = ExecTTL
    /\ now = 0
    /\ last = NoOp
    /\ pc = [c \in Callers |-> "idle"]
    /\ cur = [c \in Callers |-> 0]
    /\ execs = <<>>
    /\ mu = Unlocked
    /\ lpc = [p \in Procs |-> "idle"]
    /\ lop = [p \in Procs |-> "none"]
    /\ obs = [p \in Procs |-> <<>>]
    /\ kcalls = <<>>
    /\ RateInit

\* the callers' steps, the clock and the sweeper; the history goroutines, which
\* touch neither the cache nor a caller, are left where Spawn put them
NextConc ==
    \/ \E c \in DOMAIN pc : Start(c)
    \/ \E c \in DOMAIN pc : CacheGet(c)
    \/ \E c \in DOMAIN pc : CallUpstream(c)
    \/ \E c \in DOMAIN pc : UpstreamReturn(c)
    \/ \E c \in DOMAIN pc : CacheSet(c)
    \/ \E c \in DOMAIN pc : Spawn(c)
    \/ \E c \in DOMAIN pc : Return(c)
    \/ ExecTick
    \/ ExecSweep

SpecConc == InitConc /\ [][NextConc]_vars

(***************************************************************************)
(* The cache's methods as sections under Cache.mu: each method takes the   *)
(* lock on entry and releases it (defer) when it returns.                  *)
(***************************************************************************)
PublicOps == {"SetWithTTL", "Get", "Delete", "Clear", "Len", "GetStats"}

\* Clear taking the read lock
LockKindClearShared(op) == IF op \in {"Get", "Len", "GetStats", "Clear"} THEN "RLock" ELSE "Lock"

\* Delete taking the read lock
LockKindDeleteShared(op) == IF op \in {"Get", "Len", "GetStats", "Delete"} THEN "RLock" ELSE "Lock"

\* which lock the method takes: c.mu.Lock() or c.mu.RLock()
LockKind(op) == IF op \in {"Get", "Len", "GetStats"} THEN "RLock" ELSE "Lock"

\* whether the method's section writes c.items (SetWithTTL with its evictOldest,
\* Delete, Clear, removeExpired) or only reads it
Writes(op) == op \in {"SetWithTTL", "Delete", "Clear", "removeExpired"}

InSection(p) == lpc[p] = "in"

\* how many times the method's section reaches for c.items: GetStats takes
\* len(c.items) twice and then ranges over the map; the others go there once
Accesses(op) == IF op = "GetStats" THEN 3 ELSE 1

LockKeys == {<<97>>, <<98>>}

\* what a write section does to the map
Effect(op, its, cap, key, ttl, t) ==
    CASE op = "SetWithTTL" -> SetWithTTL(its, cap, key, Slice(<<1>>), ttl, t, t, <<>>)
      [] op = "Delete" -> Delete(its, key)
      [] op = "Clear" -> Clear(its)
      [] op = "removeExpired" -> removeExpired(its, t)

InitLock ==
    /\ items = EmptyMap
    /\ maxEntries = CacheMaxEntries
    /\ defaultTTL = ExecTTL
    /\ now = 0
    /\ last = NoOp
    /\ pc = [c \in {1} |-> "idle"]
    /\ cur = [c \in {1} |-> 0]
    /\ execs = <<>>
    /\ mu = Unlocked
    /\ lpc = [p \in Procs |-> "idle"]
    /\ lop = [p \in Procs |-> "none"]
    /\ obs = [p \in Procs |-> <<>>]
    /\ kcalls = <<>>
    /\ RateInit

\* a goroutine calls a method; the sweeper's goroutine calls removeExpired only
Call(p) ==
    \E op \in (IF p = Sweeper THEN {"removeExpired"} ELSE PublicOps) :
        /\ lpc[p] = "idle"
        /\ lop' = [lop EXCEPT ![p] = op]
        /\ lpc' = [lpc EXCEPT ![p] = "wait"]
        /\ UNCHANGED <<cvars, evars, mu, obs>>
        /\ UNCHANGED kcalls
        /\ UNCHANGED rvars

\* Lock, first half: the writer announces itself; one writer at a time
LockAnnounce(p) ==
    /\ lpc[p] = "wait"
    /\ LockKind(lop[p]) = "Lock"
    /\ mu.writer = {}
    /\ mu' = [mu EXCEPT !.writer = {p}]
    /\ lpc' = [lpc EXCEPT ![p] = "drain"]
    /\ UNCHANGED <<cvars, evars, lop, obs>>
    /\ UNCHANGED kcalls
    /\ UNCHANGED rvars

\* Lock, second half: the readers inside have left
LockAcquire(p) ==
    /\ lpc[p] = "drain"
    /\ mu.readers = {}
    /\ mu' = [mu EXCEPT !.held = TRUE]
    /\ lpc' = [lpc EXCEPT ![p] = "in"]
    /\ UNCHANGED <<cvars, evars, lop, obs>>
    /\ UNCHANGED kcalls
    /\ UNCHANGED rvars

\* RLock: no writer holds the lock or waits for it
RLockAcquire(p) ==
    /\ lpc[p] = "wait"
    /\ LockKind(lop[p]) = "RLock"
    /\ mu.writer = {}
    /\ mu' = [mu EXCEPT !.readers = @ \cup {p}]
    /\ lpc' = [lpc EXCEPT ![p] = "in"]
    /\ UNCHANGED <<cvars, evars, lop, obs>>
    /\ UNCHANGED kcalls
    /\ UNCHANGED rvars

\* a read section's next access to c.items: it meets the keys now in the map
ReadStep(p) ==
    /\ lpc[p] = "in"
    /\ ~Writes(lop[p])
    /\ Len(obs[p]) < Accesses(lop[p])
    /\ obs' = [obs EXCEPT ![p] = Append(@, DOMAIN items)]
    /\ UNCHANGED <<cvars, evars, mu, lpc, lop>>
    /\ UNCHANGED kcalls
    /\ UNCHANGED rvars

\* a write section's assignment to c.items
WriteStep(p) ==
    \E key \in LockKeys :
        /\ lpc[p] = "in"
        /\ Writes(lop[p])
        /\ Len(obs[p]) < Accesses(lop[p])
        /\ items' = Effect(lop[p], items, maxEntries, key, defaultTTL, now)
        /\ obs' = [obs EXCEPT ![p] = Append(@, DOMAIN items')]
        /\ UNCHANGED <<maxEntries, defaultTTL, now, last, evars, mu, lpc, lop>>
        /\ UNCHANGED kcalls
        /\ UNCHANGED rvars

\* the method returns: defer c.mu.Unlock()
UnlockReturn(p) ==
    /\ lpc[p] = "in"
    /\ LockKind(lop[p]) = "Lock"
    /\ Len(obs[p]) = Accesses(lop[p])
    /\ obs' = [obs EXCEPT ![p] = <<>>]
    /\ mu' = [mu EXCEPT !.writer = {}, !.held = FALSE]
    /\ lpc' = [lpc EXCEPT ![p] = "idle"]
    /\ UNCHANGED <<cvars, evars, lop>>
    /\ UNCHANGED kcalls
    /\ UNCHANGED rvars

\* the method returns: defer c.mu.RUnlock()
RUnlockReturn(p) ==
    /\ lpc[p] = "in"
    /\ LockKind(lop[p]) = "RLock"
    /\ Len(obs[p]) = Accesses(lop[p])
    /\ obs' = [obs EXCEPT ![p] = <<>>]
    /\ mu' = [mu EXCEPT !.readers = @ \ {p}]
    /\ lpc' = [lpc EXCEPT ![p] = "idle"]
    /\ UNCHANGED <<cvars, evars, lop>>
    /\ UNCHANGED kcalls
    /\ UNCHANGED rvars

NextLock ==
    \/ \E p \in Procs : Call(p)
    \/ \E p \in Procs : LockAnnounce(p)
    \/ \E p \in Procs : LockAcquire(p)
    \/ \E p \in Procs : RLockAcquire(p)
    \/ \E p \in Procs : ReadStep(p)
    \/ \E p \in Procs : WriteStep(p)
    \/ \E p \in Procs : UnlockReturn(p)
    \/ \E p \in Procs : RUnlockReturn(p)

SpecLock == InitLock /\ [][NextLock]_vars

(***************************************************************************)
(* The sweeper beside the traffic of one client, with the clock running.   *)
(* NewCache starts the sweeper's goroutine (go c.startCleanup()); its      *)
(* ticker makes it call removeExpired again and again.                     *)
(***************************************************************************)
SweepProcs == {Sweeper, 1}

NextSweep ==
    \/ \E p \in SweepProcs : Call(p)
    \/ \E p \in SweepProcs : LockAnnounce(p)
    \/ \E p \in SweepProcs : LockAcquire(p)
    \/ \E p \in SweepProcs : RLockAcquire(p)
    \/ \E p \in SweepProcs : ReadStep(p)
    \/ \E p \in SweepProcs : WriteStep(p)
    \/ \E p \in SweepProcs : UnlockReturn(p)
    \/ \E p \in SweepProcs : RUnlockReturn(p)
    \/ ExecTick

\* a goroutine that can run does run: whoever has called Lock or is inside a
\* section goes on to the end of its method
Runs(p) ==
    WF_vars(LockAcquire(p) \/ ReadStep(p) \/ WriteStep(p) \/ UnlockReturn(p)
            \/ RUnlockReturn(p))

\* the clock advances; the ticker fires; sync.Mutex hands the lock to a goroutine
\* that keeps waiting for it (starvation mode), so the sweeper's Lock is not
\* overtaken forever; nothing makes the client call the cache
SweepFairness ==
    /\ WF_vars(ExecTick)
    /\ WF_vars(Call(Sweeper))
    /\ SF_vars(LockAnnounce(Sweeper))
    /\ \A p \in SweepProcs : Runs(p)

SpecSweep == InitLock /\ [][NextSweep]_vars /\ SweepFairness

(***************************************************************************)
(* The RateLimit middleware.  Each request runs in its own goroutine:      *)
(* ip := c.ClientIP(), limiter.GetLimiter(ip) under IPRateLimiter.mu, then *)
(* Allow() on the limiter it got.  A limiter is a token bucket of Burst    *)
(* tokens that fills up again as time passes.                              *)
(***************************************************************************)
\* GetLimiter taking the read lock
GetLimiterLockShared == "RLock"

\* line 35: i.mu.Lock()
GetLimiterLock == "Lock"

\* whether a goroutine gets the mutex held by the goroutines in m (GetLimiter is
\* the only method that takes it)
CanTake(m, kind) == IF kind = "Lock" THEN m = {} ELSE TRUE

Request(h) ==
    \E a \in IPs :
        /\ rpc[h] = "idle"
        /\ rreq' = [rreq EXCEPT ![h] = [NoRequest EXCEPT !.ip = a]]
        /\ rpc' = [rpc EXCEPT ![h] = "lock"]
        /\ UNCHANGED <<ips, tokens, rmu, track, clock>>
        /\ UNCHANGED <<cvars, evars, lvars, kcalls>>

LimiterLock(h) ==
    /\ rpc[h] = "lock"
    /\ CanTake(rmu, GetLimiterLock)
    /\ rmu' = rmu \cup {h}
    /\ rpc' = [rpc EXCEPT ![h] = "lookup"]
    /\ UNCHANGED <<ips, tokens, rreq, track, clock>>
    /\ UNCHANGED <<cvars, evars, lvars, kcalls>>

\* line 38: limiter, exists := i.ips[ip]
LimiterLookup(h) ==
    /\ rpc[h] = "lookup"
    /\ IF rreq[h].ip \in DOMAIN ips
       THEN /\ rreq' = [rreq EXCEPT ![h].lim = ips[rreq[h].ip]]
            /\ rpc' = [rpc EXCEPT ![h] = "unlock"]
       ELSE /\ rreq' = rreq
            /\ rpc' = [rpc EXCEPT ![h] = "create"]
    /\ UNCHANGED <<ips, tokens, rmu, track, clock>>
    /\ UNCHANGED <<cvars, evars, lvars, kcalls>>

\* lines 40-41: a new limiter with a full bucket is stored under the ip
LimiterCreate(h) ==
    /\ rpc[h] = "create"
    /\ LET id == Len(tokens) + 1
       IN  /\ tokens' = Append(tokens, Burst)
           /\ ips' = [a \in DOMAIN ips \cup {rreq[h].ip} |->
                         IF a = rreq[h].ip THEN id ELSE ips[a]]
           /\ rreq' = [rreq EXCEPT ![h].lim = id]
           /\ track' = [track EXCEPT !.served = Append(@, {})]
    /\ rpc' = [rpc EXCEPT ![h] = "unlock"]
    /\ UNCHANGED <<rmu, clock>>
    /\ UNCHANGED <<cvars, evars, lvars, kcalls>>

\* lines 36, 44: the deferred Unlock, and the limiter returned
LimiterUnlock(h) ==
    /\ rpc[h] = "unlock"
    /\ rmu' = rmu \ {h}
    /\ track' = [track EXCEPT !.given[rreq[h].ip] = @ \cup {rreq[h].lim},
                              !.lastUse[rreq[h].ip] = clock]
    /\ rpc' = [rpc EXCEPT ![h] = "allow"]
    /\ UNCHANGED <<ips, tokens, rreq, clock>>
    /\ UNCHANGED <<cvars, evars, lvars, kcalls>>

\* lines 56-74: Allow() takes a token if there is one; without one the request is
\* answered 429 and aborted
Allow(h) ==
    /\ rpc[h] = "allow"
    /\ LET l == rreq[h].lim
       IN  /\ tokens' = IF tokens[l] > 0 THEN [tokens EXCEPT ![l] = @ - 1] ELSE tokens
           /\ rreq' = [rreq EXCEPT ![h].out = IF tokens[l] > 0 THEN "next" ELSE "429",
                                    ![h].had = tokens[l]]
           /\ track' = [track EXCEPT !.served[l] = @ \cup {rreq[h].ip}]
    /\ rpc' = [rpc EXCEPT ![h] = "idle"]
    /\ UNCHANGED <<ips, rmu, clock>>
    /\ UNCHANGED <<cvars, evars, lvars, kcalls>>

\* time passing puts a token back into a bucket that is not full
Refill ==
    \E l \in DOMAIN tokens :
        /\ tokens[l] < Burst
        /\ tokens' = [tokens EXCEPT ![l] = @ + 1]
        /\ UNCHANGED <<ips, rmu, rpc, rreq, track, clock>>
        /\ UNCHANGED <<cvars, evars, lvars, kcalls>>

\* an hour passes
RateTick ==
    /\ clock < MaxClock
    /\ clock' = clock + 1
    /\ UNCHANGED <<ips, tokens, rmu, rpc, rreq, track>>
    /\ UNCHANGED <<cvars, evars, lvars, kcalls>>

\* no cache is involved: its fields stay at their zero values
InitRate ==
    /\ items = EmptyMap
    /\ maxEntries = 0
    /\ defaultTTL = 0
    /\ now = 0
    /\ last = NoOp
    /\ pc = [c \in {1} |-> "idle"]
    /\ cur = [c \in {1} |-> 0]
    /\ execs = <<>>
    /\ mu = Unlocked
    /\ lpc = [p \in Procs |-> "idle"]
    /\ lop = [p \in Procs |-> "none"]
    /\ obs = [p \in Procs |-> <<>>]
    /\ kcalls = <<>>
    /\ RateInit

NextRate ==
    \/ \E h \in Handlers : Request(h)
    \/ \E h \in Handlers : LimiterLock(h)
    \/ \E h \in Handlers : LimiterLookup(h)
    \/ \E h \in Handlers : LimiterCreate(h)
    \/ \E h \in Handlers : LimiterUnlock(h)
    \/ \E h \in Handlers : Allow(h)
    \/ Refill
    \/ RateTick

SpecRate == InitRate /\ [][NextRate]_vars

(***************************************************************************)
(* Claims about the cache.                                                 *)
(***************************************************************************)

\* C1: TTL property.  An entry's expiration is its insertion time plus its TTL
\* (SetWithTTL), so "t after insertion" is the instant now = expiration.  After
\* a Get of a key that no Delete, Clear or eviction has removed: at every time
\* before the expiration it returned the stored value with found = true, and at
\* every time at or after the expiration it returned found = false, swept or not.
C1_TTLProperty ==
    last.op = "Get" =>
        IF last.key \in DOMAIN items
        THEN LET e == items[last.key]
             IN  /\ now < e.expiration => last.found /\ last.value = e.value
                 /\ now >= e.expiration => ~last.found
        ELSE ~last.found

\* C2: capacity invariant.  With maxEntries > 0 the physical entry count never
\* exceeds maxEntries.
C2_CapacityInvariant == maxEntries > 0 => CacheLen(items) <= maxEntries

\* C3: FIFO victim.  A Set of a key that is not present, on a cache at capacity,
\* removes exactly one entry, and that entry has the smallest createdAt of the
\* entries present before the Set.
C3_FIFOVictim ==
    [][(last'.op = "Set" /\ ~last'.had /\ last'.full) =>
          \E victim \in DOMAIN items :
              /\ DOMAIN items' = (DOMAIN items \ {victim}) \cup {last'.key}
              /\ \A k \in DOMAIN items : items[victim].createdAt <= items[k].createdAt]_vars

\* C12: eviction is triggered only for a new key.  A Set whose key is already
\* present in a cache at capacity replaces that key's entry and evicts nothing:
\* Len is unchanged and every key that was present is still present.
C12_ReplaceEvictsNothing ==
    [][(last'.op = "Set" /\ last'.had /\ last'.full) =>
          /\ CacheLen(items') = CacheLen(items)
          /\ DOMAIN items \subseteq DOMAIN items'
          /\ last'.gone = {}]_vars

\* C19: Clear empties the cache.  Right after Clear, Len is 0 and no key is found;
\* the Len called next returns 0; and a key that is not in the cache comes back
\* only by a Set of that key, a Get of it returning found = false until then.
C19_ClearEmpties ==
    [][/\ last'.op = "Clear" =>
              /\ CacheLen(items') = 0
              /\ \A k \in Keys : ~Get(items', k, now').found
       /\ (last.op = "Clear" /\ last'.op = "Len") => last'.n = 0
       /\ \A k \in Keys :
              (k \notin DOMAIN items /\ ~(last'.op = "Set" /\ last'.key = k)) =>
                  /\ k \notin DOMAIN items'
                  /\ (last'.op = "Get" /\ last'.key = k) => ~last'.found]_vars

\* Clear has just removed two entries
C19_Witness ==
    /\ last.op = "Clear" /\ Cardinality(last.gone) = 2
    /\ CacheLen(items) = 0

\* C21: Delete.  Delete(k) removes k if it is present (Len drops by one and a
\* Get(k) that follows returns found = false) and changes nothing when k is
\* absent; either way every other key keeps its value, createdAt and expiration.
C21_Delete ==
    [][/\ last'.op = "Delete" =>
              /\ last'.key \notin DOMAIN items'
              /\ ~Get(items', last'.key, now').found
              /\ last'.had => CacheLen(items') = CacheLen(items) - 1
              /\ ~last'.had => items' = items
              /\ \A k \in DOMAIN items \ {last'.key} :
                     k \in DOMAIN items' /\ items'[k] = items[k]
       /\ (last.op = "Delete" /\ last'.op = "Get" /\ last'.key = last.key) =>
              ~last'.found]_vars

\* a Delete has removed a key and another entry is still there
C21_Witness ==
    /\ last.op = "Delete" /\ last.had
    /\ last.key \notin DOMAIN items /\ CacheLen(items) = 1

\* C22: non-positive TTL.  The Get(k) that comes right after SetWithTTL(k, v, ttl)
\* with ttl <= 0 returns found = false, also at the clock instant of the
\* SetWithTTL.
C22_NonPositiveTTL ==
    [][(/\ last.op = "Set" /\ last.ttl <= 0
        /\ last'.op = "Get" /\ last'.key = last.key) => ~last'.found]_vars

\* C23: Set always succeeds.  After a set with a positive TTL the entry is in the
\* map with the value given, also when the cache was at capacity; the Get(k) that
\* comes right after it, before the TTL has elapsed, returns (v, true).
C23_SetAlwaysSucceeds ==
    [][/\ (last'.op = "Set" /\ last'.ttl > 0) =>
              /\ last'.key \in DOMAIN items'
              /\ items'[last'.key].value = last'.value
              /\ items'[last'.key].expiration >= now + last'.ttl
       /\ (/\ last.op = "Set" /\ last.ttl > 0
           /\ last'.op = "Get" /\ last'.key = last.key
           /\ now' < items[last.key].expiration) =>
              last'.found /\ last'.value = last.value]_vars

\* a Set of a new key on a cache at capacity has stored its entry, which a Get
\* finds
C23_Witness ==
    /\ last.op = "Set" /\ last.ttl > 0 /\ last.full /\ ~last.had
    /\ last.key \in DOMAIN items
    /\ Get(items, last.key, now).found

\* C24: sweep postcondition.  When a sweeper run that read the clock value now is
\* done, no entry with expiration <= now is left in the map.
C24_SweepPostcondition ==
    last.op = "Sweep" => \A k \in DOMAIN items : items[k].expiration > now

\* C27: reads do not change the cache.  Get, Len and GetStats leave the map as it
\* was, and an entry, expired or not, leaves the map only by the sweeper, a
\* Delete, a Clear, or a Set on a cache at capacity.
C27_ReadsChangeNothing ==
    [][/\ last'.op \in {"Get", "Len", "GetStats"} => items' = items
       /\ last'.op = "Len" => last'.n = CacheLen(items)
       /\ \A k \in DOMAIN items :
              k \notin DOMAIN items' =>
                  \/ last'.op \in {"Sweep", "Delete", "Clear"}
                  \/ last'.op = "Set" /\ last'.full]_vars

\* a Get has missed an expired entry that is still in the map
C27_Witness ==
    /\ last.op = "Get" /\ ~last.found
    /\ last.key \in DOMAIN items /\ now > items[last.key].expiration

\* the smallest and the largest createdAt in the map
MinCreatedAt(its) ==
    CHOOSE t \in {its[k].createdAt : k \in DOMAIN its} :
        \A k \in DOMAIN its : t <= its[k].createdAt

MaxCreatedAt(its) ==
    CHOOSE t \in {its[k].createdAt : k \in DOMAIN its} :
        \A k \in DOMAIN its : t >= its[k].createdAt

\* C28: GetStats snapshot.  TotalItems is the physical entry count, MaxEntries and
\* DefaultTTL are the configured ones, OldestItemAge = now - min(createdAt) and
\* NewestItemAge = now - max(createdAt) over all entries in the map, expired ones
\* too, so OldestItemAge >= NewestItemAge >= 0; both ages are 0 on an empty cache.
C28_GetStatsSnapshot ==
    last.op = "GetStats" =>
        /\ last.stats.TotalItems = CacheLen(items)
        /\ last.stats.MaxEntries = maxEntries
        /\ last.stats.DefaultTTL = defaultTTL
        /\ IF DOMAIN items = {}
           THEN last.stats.OldestItemAge = 0 /\ last.stats.NewestItemAge = 0
           ELSE /\ last.stats.OldestItemAge = now - MinCreatedAt(items)
                /\ last.stats.NewestItemAge = now - MaxCreatedAt(items)
                /\ last.stats.OldestItemAge >= last.stats.NewestItemAge
                /\ last.stats.NewestItemAge >= 0

\* GetStats on a cache of two entries of different ages, one of them expired
C28_Witness ==
    /\ last.op = "GetStats" /\ last.stats.TotalItems = 2
    /\ last.stats.OldestItemAge > last.stats.NewestItemAge
    /\ \E k \in DOMAIN items : now > items[k].expiration

\* C26: construction rejects misuse.  NewCache with maxEntries <= 0 or with
\* defaultTTL <= 0 fails: no cache with such a field is ever in use.
C26_ConstructionRejectsMisuse ==
    (maxEntries <= 0 \/ defaultTTL <= 0) => (last.op = "NewCache" /\ last.failed)

\* C31: refresh on re-Set.  A Set on a key that is present stores the new value
\* with a createdAt and an expiration taken from the clock during that Set, so the
\* key is the most recently inserted one, and the Get(k) that comes right after
\* it, before the new expiration, returns the new value.
C31_RefreshOnReSet ==
    [][/\ (last'.op = "Set" /\ last'.had) =>
              /\ last'.key \in DOMAIN items'
              /\ items'[last'.key].value = last'.value
              /\ items'[last'.key].createdAt >= now
              /\ items'[last'.key].createdAt <= now'
              /\ items'[last'.key].expiration >= now + last'.ttl
              /\ items'[last'.key].expiration <= now' + last'.ttl
              /\ \A k \in DOMAIN items' :
                     items'[k].createdAt <= items'[last'.key].createdAt
       /\ (/\ last.op = "Set" /\ last.had
           /\ last'.op = "Get" /\ last'.key = last.key
           /\ now' < items[last.key].expiration) =>
              last'.found /\ last'.value = last.value]_vars

\* a key stored at an earlier time has been set again and is now newer than
\* another entry
C31_Witness ==
    /\ last.op = "Set" /\ last.had /\ now > 0
    /\ items[last.key].createdAt = now
    /\ \E k \in DOMAIN items : items[k].createdAt < now

\* C32: expiration = createdAt + ttl, exactly, for the entry a Set has just stored.
C32_ExactExpiry ==
    last.op = "Set" =>
        /\ last.key \in DOMAIN items
        /\ items[last.key].expiration = items[last.key].createdAt + last.ttl

\* C33: deterministic tie-break.  What a Set on a cache at capacity leaves in the
\* map is a function of the map and the arguments: every order in which
\* evictOldest may visit the entries gives the map the step produced.
C33_DeterministicTieBreak ==
    [][(last'.op = "Set" /\ last'.full) =>
          \A order \in Orders(DOMAIN items) :
              items' = SetWithTTL(items, maxEntries, last'.key, last'.value, last'.ttl,
                                  now, now', order)]_vars

\* C35: the empty key is an ordinary key.  The evictOldest of a Set on a cache at
\* capacity removes exactly one entry, one with the smallest createdAt, whatever
\* the keys in the map are; then the Set stores its key.
C35_EmptyKeyIsOrdinary ==
    [][(last'.op = "Set" /\ last'.full /\ DOMAIN items # {}) =>
          \E victim \in DOMAIN items :
              /\ \A k \in DOMAIN items : items[victim].createdAt <= items[k].createdAt
              /\ DOMAIN items' = (DOMAIN items \ {victim}) \cup {last'.key}]_vars

\* C36: eviction ignores expiry.  With an expired entry still in the map, a Set
\* evicts as soon as the physical count has reached maxEntries, and the victim is
\* an entry with the smallest createdAt of all entries, expired or not.
C36_EvictionIgnoresExpiry ==
    [][(/\ last'.op = "Set"
        /\ \E k \in DOMAIN items : now >= items[k].expiration
        /\ maxEntries > 0 /\ CacheLen(items) >= maxEntries) =>
          /\ last'.full
          /\ \E victim \in DOMAIN items :
                 /\ \A k \in DOMAIN items : items[victim].createdAt <= items[k].createdAt
                 /\ last'.gone \subseteq {victim}
                 /\ DOMAIN items' = (DOMAIN items \ {victim}) \cup {last'.key}]_vars

\* C37: Get and the sweeper use one expiry test.  A sweep at the clock reading now
\* removes an entry exactly when a Get of its key at now returns found = false.
C37_SameExpiryTest ==
    [][last'.op = "Sweep" =>
          \A k \in DOMAIN items :
              (k \notin DOMAIN items') <=> ~Get(items, k, now).found]_vars

\* a sweep has removed an entry and kept one whose expiration is the clock reading,
\* which a Get still returns
C37_Witness ==
    /\ last.op = "Sweep" /\ last.gone # {}
    /\ \E k \in DOMAIN items : items[k].expiration = now /\ Get(items, k, now).found

\* C34: maxEntries <= 0 means unlimited.  On such a cache no Set evicts: it adds
\* its key and leaves every other entry as it is; an entry leaves the map only
\* when a sweep finds it expired, when it is deleted, or by Clear; so Len grows
\* with every new key.
C34_ZeroMeansUnlimited ==
    [][maxEntries <= 0 =>
          /\ last'.op = "Set" =>
                 /\ ~last'.full /\ last'.gone = {}
                 /\ DOMAIN items' = DOMAIN items \cup {last'.key}
                 /\ \A k \in DOMAIN items \ {last'.key} : items'[k] = items[k]
                 /\ ~last'.had => CacheLen(items') = CacheLen(items) + 1
          /\ \A k \in DOMAIN items :
                 k \notin DOMAIN items' =>
                     \/ last'.op = "Sweep" /\ After(now, items[k].expiration)
                     \/ last'.op = "Delete" /\ last'.key = k
                     \/ last'.op = "Clear"]_vars

\* a cache built with maxEntries = 0 holds every key there is
C34_Witness ==
    /\ maxEntries = 0 /\ last.op = "Set" /\ ~last.had
    /\ DOMAIN items = Keys

(***************************************************************************)
(* Claims about GenerateKey.                                               *)
(***************************************************************************)
IsNumeric(part) == part.kind \in {"int", "int64"}

\* tuples that are identical except for a different value of the numeric part
DifferInNumber(p1, p2) ==
    /\ Len(p1) = Len(p2)
    /\ \E n \in DOMAIN p1 :
           /\ IsNumeric(p1[n]) /\ p1[n].kind = p2[n].kind /\ p1[n].val # p2[n].val
           /\ \A i \in DOMAIN p1 \ {n} : p1[i] = p2[i]

\* C16: numeric parts distinguish keys.  Two tuples that are identical except for
\* a different value of the numeric part get different keys.
C16_NumericPartsDistinguish ==
    Len(kcalls) = 2 =>
        (DifferInNumber(kcalls[1].parts, kcalls[2].parts) =>
            kcalls[1].key # kcalls[2].key)

RECURSIVE Digits(_)
\* the decimal digits of a natural number, as bytes
Digits(n) == IF n < 10 THEN <<48 + n>> ELSE Digits(n \div 10) \o <<48 + (n % 10)>>

\* the decimal text of a 32-bit number
DecimalText(n) == IF n < 0 THEN <<45>> \o Digits(0 - n) ELSE Digits(n)

\* C17: decimal encoding of numeric parts.  The string made of an integer part
\* (here: one that fits 32 bits) is its decimal text: 10 becomes "10".
C17_DecimalEncoding ==
    \A c \in DOMAIN kcalls :
        \A i \in DOMAIN kcalls[c].parts :
            (IsNumeric(kcalls[c].parts[i]) /\ kcalls[c].parts[i].val.hi = 0) =>
                kcalls[c].strs[i] = DecimalText(kcalls[c].parts[i].val.lo)

\* C18: unsupported key parts are an error.  A call of GenerateKey with a part that
\* is not a string, an int or an int64 fails, so that two tuples that differ only
\* in such a part never get the same key out of two calls that succeeded.
C18_UnsupportedPartFails ==
    /\ \A c \in DOMAIN kcalls :
           (\E i \in DOMAIN kcalls[c].parts :
                kcalls[c].parts[i].kind \notin {"string", "int", "int64"}) =>
               kcalls[c].failed
    /\ Len(kcalls) = 2 =>
           ((/\ kcalls[1].parts # kcalls[2].parts
             /\ ~kcalls[1].failed /\ ~kcalls[2].failed
             /\ \A i \in DOMAIN kcalls[1].parts :
                    kcalls[1].parts[i] # kcalls[2].parts[i] =>
                        kcalls[1].parts[i].kind \notin {"string", "int", "int64"}) =>
               kcalls[1].key # kcalls[2].key)

AllStrings(parts) == \A i \in DOMAIN parts : parts[i].kind = "string"

\* C39: part boundaries are part of the key.  Two different sequences of string
\* parts feed different bytes to the hash and get different keys, also when
\* their concatenations are equal.
C39_PartBoundaries ==
    Len(kcalls) = 2 =>
        ((/\ AllStrings(kcalls[1].parts) /\ AllStrings(kcalls[2].parts)
          /\ kcalls[1].parts # kcalls[2].parts) =>
            /\ HashInput(kcalls[1].parts) # HashInput(kcalls[2].parts)
            /\ kcalls[1].key # kcalls[2].key)

\* the parts of a call Execute makes for a validated search: the "search" tag, a
\* query string, an int64 limit in the validated range
ValidatedSearch(parts) ==
    /\ Len(parts) = 3
    /\ parts[1] = StringPart(SearchTag)
    /\ parts[2].kind = "string"
    /\ parts[3].kind = "int64" /\ parts[3].val.hi = 0
    /\ parts[3].val.lo >= MinResults /\ parts[3].val.lo <= MaxAllowedResults

\* C40: keys are unique for validated searches.  The key of such a call is the
\* key Execute builds for its (query, limit), and two calls with different
\* (query, limit) get different keys.
C40_ValidatedKeysUnique ==
    /\ \A c \in DOMAIN kcalls :
           ValidatedSearch(kcalls[c].parts) =>
               kcalls[c].key = CacheKey(kcalls[c].parts[2].val, kcalls[c].parts[3].val.lo)
    /\ Len(kcalls) = 2 =>
           ((/\ ValidatedSearch(kcalls[1].parts) /\ ValidatedSearch(kcalls[2].parts)
             /\ kcalls[1].parts # kcalls[2].parts) =>
               kcalls[1].key # kcalls[2].key)

\* ("a1", 1) and ("a", 49): the limit 49 is hashed as the byte '1', and the keys
\* differ
C40_Witness ==
    /\ Len(kcalls) = 2
    /\ ValidatedSearch(kcalls[1].parts) /\ ValidatedSearch(kcalls[2].parts)
    /\ kcalls[1].parts[2].val = <<97, 49>> /\ kcalls[1].parts[3].val.lo = 1
    /\ kcalls[2].parts[2].val = <<97>> /\ kcalls[2].parts[3].val.lo = 49
    /\ kcalls[2].strs[3] = <<49>>
    /\ kcalls[1].key # kcalls[2].key

(***************************************************************************)
(* Claims about SearchVideos.Execute.                                      *)
(***************************************************************************)
Failed(e) == e.up = ApiError

\* call i follows call i - 1 with the same arguments, neither overlapping another
\* call; call i - 1 fetched from upstream and succeeded, and call i looks the
\* cache up before that entry's TTL window ends
RepeatInWindow(i) ==
    /\ i > 1 /\ i <= Len(execs)
    /\ execs[i - 1].solo /\ execs[i].solo
    /\ execs[i - 1].called /\ execs[i - 1].ret.done /\ execs[i - 1].ret.err = NoError
    /\ execs[i].query = execs[i - 1].query /\ execs[i].limit = execs[i - 1].limit
    /\ execs[i].inWindow

\* C4: cache hit avoids the upstream call.  Of two sequential Execute calls with
\* the same (query, limit), the second within the TTL window of the first, only
\* the first calls upstream, and the second returns the first's results with a
\* nil error.
C4_CacheHit ==
    \A i \in DOMAIN execs :
        RepeatInWindow(i) =>
            /\ execs[i].hit /\ ~execs[i].called
            /\ execs[i].ret = [videos |-> execs[i - 1].ret.videos, err |-> NoError,
                               done |-> TRUE]

C4_Witness == \E i \in DOMAIN execs : RepeatInWindow(i) /\ execs[i].ret.done

\* C5: upstream failure.  The step in which Execute learns that Search failed
\* returns exactly Search's error with a nil result set and leaves the cache as
\* it is; the call has stored nothing in the cache.
C5_UpstreamFailure ==
    [][\A i \in DOMAIN execs :
          (~Failed(execs[i]) /\ Failed(execs'[i])) =>
              /\ execs'[i].ret = [videos |-> NilSlice, err |-> ApiError, done |-> TRUE]
              /\ execs'[i].stored = 0
              /\ items' = items]_vars

C5_Witness ==
    \E i \in DOMAIN execs : Failed(execs[i]) /\ execs[i].ret.done /\ items # EmptyMap

\* C6: no history on failure.  For an Execute whose Search failed the history
\* goroutine is never started and Save is never called, at any later time.
C6_NoHistoryOnFailure ==
    \A i \in DOMAIN execs :
        Failed(execs[i]) => execs[i].save = "none" /\ execs[i].saveCalls = 0

C6_Witness ==
    \E i \in DOMAIN execs :
        /\ Failed(execs[i]) /\ execs[i].ret.done
        /\ i < Len(execs) /\ execs[i + 1].ret.done

\* C7: logging never blocks the response.  Once the history goroutine is started,
\* Execute can return at once, whether Save has not begun, is still running
\* (it may block for ever) or has ended.
C7_LoggingNeverBlocks == \A c \in DOMAIN pc : pc[c] = "ret" => ENABLED Return(c)

C7_Witness ==
    \E i \in DOMAIN execs :
        execs[i].called /\ execs[i].ret.done /\ execs[i].save = "running"

\* C8: history-write failure is swallowed.  An Execute whose Search succeeded
\* returns (results, nil) whatever Save returns, and Save is called at most once
\* for it.
C8_HistoryFailureSwallowed ==
    \A i \in DOMAIN execs :
        /\ execs[i].saveCalls <= 1
        /\ (execs[i].up = NoError /\ execs[i].ret.done) =>
               execs[i].ret = [videos |-> execs[i].videos, err |-> NoError, done |-> TRUE]

C8_Witness ==
    \E i \in DOMAIN execs :
        /\ execs[i].up = NoError /\ execs[i].ret.done
        /\ execs[i].save = "ended" /\ execs[i].saveResult = "error"

\* the first two calls of a fresh use case are sequential, differ in the query
\* only, and no Search of theirs fails
DistinctPair(es) ==
    /\ Len(es) >= 2
    /\ es[1].solo /\ es[2].solo
    /\ es[1].query # es[2].query /\ es[1].limit = es[2].limit
    /\ ~Failed(es[1]) /\ ~Failed(es[2])

\* C9: cache miss on distinct params.  Execute(q1, n) followed by Execute(q2, n),
\* q1 # q2, on a fresh use case: both call upstream; when the second stores its
\* result the cache holds two entries under two distinct keys, each with its
\* call's own upstream result (the first one unless it has expired); and each
\* call returns its own upstream result.
C9_MissOnDistinctParams ==
    [][(Len(execs) >= 2 /\ DistinctPair(execs')) =>
          /\ (execs[2].stored = 0 /\ execs'[2].stored = 1) =>
                 /\ execs'[1].called /\ execs'[2].called
                 /\ execs'[1].key # execs'[2].key
                 /\ execs'[2].key \in DOMAIN items'
                 /\ items'[execs'[2].key].value = execs'[2].videos
                 /\ \/ now' > execs'[1].exp
                    \/ /\ execs'[1].key \in DOMAIN items'
                       /\ items'[execs'[1].key].value = execs'[1].videos
          /\ (~execs[2].ret.done /\ execs'[2].ret.done) =>
                 /\ execs'[1].called /\ execs'[2].called
                 /\ execs'[1].ret.videos = execs'[1].videos
                 /\ execs'[2].ret.videos = execs'[2].videos
                 /\ execs'[2].ret.err = NoError]_vars

C9_Witness ==
    /\ DistinctPair(execs)
    /\ execs[2].ret.done
    /\ execs[1].key \in DOMAIN items /\ execs[2].key \in DOMAIN items
    /\ execs[1].videos # execs[2].videos

\* C15: exactly one history record per fetched search.  An Execute that missed the
\* cache and got a successful upstream response has started the history goroutine
\* by the time it returns, Save is called at most once for it, and the record
\* carries the call's query and the number of results returned to the caller; an
\* Execute served from the cache (or one whose upstream call failed) starts no
\* goroutine and calls no Save.
C15_OneHistoryPerFetch ==
    \A i \in DOMAIN execs :
        /\ execs[i].saveCalls <= 1
        /\ (execs[i].ret.done /\ ~execs[i].hit /\ execs[i].up = NoError) =>
               /\ execs[i].save # "none"
               /\ execs[i].save \in {"running", "ended"} => execs[i].saveCalls = 1
        /\ execs[i].saveCalls = 1 =>
               /\ execs[i].history.query = execs[i].query
               /\ execs[i].history.results = Len(execs[i].videos.elems)
               /\ execs[i].ret.done =>
                      execs[i].history.results = Len(execs[i].ret.videos.elems)
        /\ (execs[i].hit \/ execs[i].up # NoError) =>
               execs[i].save = "none" /\ execs[i].saveCalls = 0

\* a fetched search whose Save has been made with the count of the two results
\* returned, followed by a search served from the cache with no Save
C15_Witness ==
    \E i, j \in DOMAIN execs :
        /\ execs[i].ret.done /\ ~execs[i].hit /\ execs[i].up = NoError
        /\ execs[i].save = "ended" /\ execs[i].saveCalls = 1
        /\ execs[i].history.results = 2 /\ Len(execs[i].ret.videos.elems) = 2
        /\ execs[j].ret.done /\ execs[j].hit /\ execs[j].save = "none"

(***************************************************************************)
(* Claims about cancellation.                                              *)
(***************************************************************************)

\* the calls before call i that stored an entry under call i's key
EarlierStores(es, i) ==
    {j \in 1..(i - 1) : es[j].key = es[i].key /\ es[j].stored = 1}

\* call i has called upstream although an earlier call had stored its key
Refetch(es, i) == i \in DOMAIN es /\ EarlierStores(es, i) # {} /\ es[i].called

\* C38: refetch after expiry.  An Execute that looks the cache up after the entry
\* of its (query, limit) has expired misses, whether the sweeper has removed the
\* entry or not, and calls upstream once; its Set stores the fresh result with an
\* expiration one TTL after the Set, later than the old one; from then until that
\* expiration a lookup of the key is a hit that returns the fresh result, and so
\* does the next Execute with the same arguments in that window.
C38_RefetchAfterExpiry ==
    [][/\ \A c \in DOMAIN pc :
              LET i == cur[c] IN
              /\ (/\ pc[c] = "get" /\ pc'[c] # "get"
                  /\ \/ /\ execs[i].key \in DOMAIN items
                        /\ now > items[execs[i].key].expiration
                     \/ /\ execs[i].key \notin DOMAIN items
                        /\ EarlierStores(execs, i) # {}) =>
                     /\ pc'[c] = "call"
                     /\ ~execs'[i].hit /\ ~execs'[i].ret.done
              /\ pc[c] = "call" => ~execs[i].called
              /\ (pc[c] = "set" /\ pc'[c] = "go" /\ Refetch(execs, i)) =>
                     /\ execs'[i].stored = 1
                     /\ execs[i].key \in DOMAIN items'
                     /\ items'[execs[i].key].value = execs[i].videos
                     /\ items'[execs[i].key].expiration = now + defaultTTL
                     /\ \A j \in EarlierStores(execs, i) :
                            items'[execs[i].key].expiration > execs[j].exp
                     /\ \A t \in now'..(now + defaultTTL - 1) :
                            LET r == Lookup(items', execs'[i], t)
                            IN  r.next = "idle" /\ r.exec.ret.videos = execs[i].videos
       /\ \A i \in DOMAIN execs' :
              /\ (/\ Refetch(execs', i) /\ execs'[i].stored = 1
                  /\ \A j \in DOMAIN execs' : i \notin EarlierStores(execs', j)
                  /\ now' < execs'[i].exp) =>
                     Get(items', execs'[i].key, now') =
                         [value |-> execs'[i].videos, found |-> TRUE]
              /\ (/\ i > 1 /\ Refetch(execs', i - 1) /\ RepeatInWindow(i)
                  /\ execs'[i].ret.done) =>
                     /\ execs'[i].hit /\ ~execs'[i].called
                     /\ execs'[i].ret.videos = execs'[i - 1].videos]_vars

\* the second call has fetched again what the first had stored, the entry now
\* holds the fresh result, which differs from the old one, and a lookup hits
C38_Witness ==
    /\ Len(execs) >= 2 /\ Refetch(execs, 2) /\ execs[2].ret.done
    /\ execs[2].stored = 1 /\ execs[2].videos # execs[1].videos
    /\ execs[2].key \in DOMAIN items
    /\ items[execs[2].key].value = execs[2].videos
    /\ now < items[execs[2].key].expiration
    /\ Lookup(items, execs[2], now).next = "idle"

\* C13: caller cancellation aborts the upstream call.  Once the caller's context
\* is cancelled while Search is in flight, Execute stops waiting: it leaves the
\* wait whether or not the upstream ever answers.
C13_CancelAbortsUpstream ==
    (pc[1] = "wait" /\ execs[cur[1]].ctx = "cancelled") ~> (pc[1] # "wait")

\* C14: detached logging.  Once the upstream call has succeeded the history
\* goroutine is started, and whatever happens to the caller's context, before or
\* after Execute returns: the goroutine can always go on to call Save, and the
\* context Save has received is never cancelled by the caller's cancellation.
C14_DetachedLogging ==
    \A i \in DOMAIN execs :
        /\ (execs[i].up = NoError /\ execs[i].ret.done /\ ~execs[i].hit) =>
               execs[i].save # "none"
        /\ execs[i].save = "spawned" => ENABLED SaveStart(i)
        /\ execs[i].save \in {"running", "ended"} => execs[i].saveCtx = "live"

\* the caller's context was cancelled before Execute returned, and Save is running
\* under a live context
C14_Witness ==
    \E i \in DOMAIN execs :
        /\ execs[i].ctx = "cancelled" /\ ~execs[i].ret.done
        /\ execs[i].save = "running" /\ execs[i].saveCtx = "live"

(***************************************************************************)
(* Claims about concurrent calls of Execute.                               *)
(***************************************************************************)

\* calls i and j overlapped other calls, have the same (query, limit), and both
\* missed the cache and got a successful upstream response
ConcurrentMisses(es, i, j) ==
    /\ i # j
    /\ ~es[i].solo /\ ~es[j].solo
    /\ es[i].query = es[j].query /\ es[i].limit = es[j].limit
    /\ es[i].up = NoError /\ es[j].up = NoError

\* C11: concurrent identical misses.  Two overlapping Execute calls for the same
\* (query, limit) that both miss both call upstream and both Set; when the later
\* of the two Sets is done the cache (a map: one entry per key) holds the key's
\* entry and its value is the complete result of that later Set; each caller returns its own complete
\* upstream result with a nil error.
C11_ConcurrentIdenticalMisses ==
    [][\A i, j \in DOMAIN execs :
          ConcurrentMisses(execs', i, j) =>
              /\ (execs[i].stored = 0 /\ execs'[i].stored = 1 /\ execs'[j].stored = 1) =>
                     /\ execs'[i].called /\ execs'[j].called
                     /\ execs'[i].key = execs'[j].key
                     /\ execs'[i].key \in DOMAIN items'
                     /\ items'[execs'[i].key].value = execs'[i].videos
              /\ (~execs[i].ret.done /\ execs'[i].ret.done) =>
                     /\ execs'[i].ret.videos = execs'[i].videos
                     /\ execs'[i].ret.err = NoError]_vars

\* both of two concurrent misses have stored different results and both callers
\* have returned
C11_Witness ==
    \E i, j \in DOMAIN execs :
        /\ ConcurrentMisses(execs, i, j)
        /\ execs[i].stored = 1 /\ execs[j].stored = 1
        /\ execs[i].videos # execs[j].videos
        /\ execs[i].ret.done /\ execs[j].ret.done
        /\ execs[i].key \in DOMAIN items

(***************************************************************************)
(* Claims about the rate limiter.                                          *)
(***************************************************************************)

\* C29: per-IP rate limiting.  Every call of GetLimiter with one ip returns one
\* and the same limiter, also when the first calls race; two ips never share a
\* limiter; so a limiter's tokens are taken by the requests of one ip only, and a
\* request is turned down only when the bucket of its own ip is empty.
C29_PerIPLimiter ==
    /\ \A a \in IPs : Cardinality(track.given[a]) <= 1
    /\ \A a, b \in DOMAIN ips : a # b => ips[a] # ips[b]
    /\ \A l \in DOMAIN track.served : Cardinality(track.served[l]) <= 1
    /\ \A h \in Handlers :
           /\ rreq[h].out = "429" => rreq[h].had = 0
           /\ rreq[h].out = "next" => rreq[h].had > 0

\* the first two calls for one ip raced and both got the one limiter there is,
\* which no request has used yet
C29_Witness ==
    \E h, g \in Handlers :
        /\ h # g
        /\ rpc[h] = "allow" /\ rpc[g] = "allow"
        /\ rreq[h].ip = rreq[g].ip /\ rreq[h].lim = rreq[g].lim
        /\ Len(tokens) = 1 /\ track.served = <<{}>>

\* the README's "removed after 1 hour", in hours
IdleLimit == 1

\* C30: rate-limiter cleanup.  No ip stays in the limiter map once GetLimiter has
\* not been called for it for more than an hour.
C30_LimiterCleanup ==
    \A a \in DOMAIN ips : clock - track.lastUse[a] <= IdleLimit

(***************************************************************************)
(* Claims about the locking.                                               *)
(***************************************************************************)

\* C20: Clear is atomic.  All accesses a Get, Len or GetStats makes to the map
\* inside its section meet one and the same key set; a Clear that runs beside them
\* falls before the first or after the last, so they meet every entry that was
\* there before the Clear or none; and Clear's one assignment leaves no entry.
C20_ClearAtomic ==
    \A p \in Procs :
        /\ (InSection(p) /\ ~Writes(lop[p])) =>
               \A i, j \in DOMAIN obs[p] : obs[p][i] = obs[p][j]
        /\ (InSection(p) /\ lop[p] = "Clear" /\ obs[p] # <<>>) =>
               obs[p] = <<{}>> /\ CacheLen(items) = 0

\* GetStats has reached for a map of two entries three times while a Clear called
\* beside it waits for the lock
C20_Witness ==
    \E p, w \in Procs :
        /\ InSection(p) /\ lop[p] = "GetStats"
        /\ Len(obs[p]) = 3 /\ Cardinality(obs[p][1]) = 2
        /\ lop[w] = "Clear" /\ lpc[w] = "drain"

\* C25: sweeper liveness.  An entry whose expiration has come (while the clock of
\* the model can still advance past it) is in the end out of the map, or set
\* anew, whether or not the client calls the cache again; and a sweeper run that
\* waits for the lock gets it.
C25_SweeperLiveness ==
    /\ \A k \in LockKeys :
           (/\ k \in DOMAIN items
            /\ items[k].expiration <= now
            /\ items[k].expiration < ExecMaxTime)
               ~> (k \notin DOMAIN items \/ items[k].expiration > now)
    /\ (lpc[Sweeper] = "wait") ~> (lpc[Sweeper] = "in")

\* an expired entry is in the map while the client is inside a write section and
\* the sweeper waits for the lock
C25_Witness ==
    /\ \E k \in DOMAIN items : now > items[k].expiration
    /\ lpc[Sweeper] = "wait"
    /\ lpc[1] = "in" /\ Writes(lop[1])

\* C10: single-writer, multi-reader discipline.  Two goroutines are never inside
\* their sections at once when either section is a write section.
C10_SingleWriterMultiReader ==
    \A p, q \in Procs :
        (p # q /\ InSection(p) /\ InSection(q)) => ~Writes(lop[p]) /\ ~Writes(lop[q])

\* two read sections overlap while a writer that has called Lock is kept out
C10_Witness ==
    \E p, q, w \in Procs :
        /\ p # q
        /\ InSection(p) /\ InSection(q) /\ ~Writes(lop[p]) /\ ~Writes(lop[q])
        /\ lpc[w] = "drain" /\ Writes(lop[w])

====
